---- MODULE Spec2Model ----
(***************************************************************************)
(* DMARC report ingestion: dmarc_parser.py (archive extraction, record     *)
(* parser, reverse-DNS resolver, directory driver) over dmarc_storage.py   *)
(* (SQLite schema in autocommit mode, save_new_report, schema reset).      *)
(*                                                                         *)
(* Python values: None is the empty tuple, a nullable value v is <<v>>.    *)
(* A Python object is a function from attribute names to values; reading   *)
(* an attribute outside its DOMAIN is an AttributeError.                   *)
(* A file name is the sequence of its dot-separated components.            *)
(***************************************************************************)
EXTENDS Integers, Sequences, FiniteSets, TLC

VARIABLES
    dir,        \* the files of the report directory in os.walk order (never changes)
    db,         \* the SQLite database: table name -> set of rows
    rdns,       \* _rdns_records of the running process: ip -> hostname
    rdns_file,  \* rdns.pickle
    pc,         \* "idle" | "walk" | "parse" | "done" | "aborted"
    idx,        \* position of the walk in dir
    n,          \* files examined in this run
    n_new,      \* reports parsed in this run
    report,     \* the DMARCReport under construction / handed to storage
    todo,       \* record elements of the document not yet constructed
    err,        \* the exception that ended the run, "none" if none
    printed,    \* the final "Found n files, parsed n_new" line was printed
    run,        \* number of runs started
    lookups,    \* calls of socket.gethostbyaddr in this run
    lastNet,    \* outcome of gethostbyaddr in the last _lookup_ip ("none": not called)
    op,         \* the last operation performed
    rerun,      \* this run directly follows an earlier run over the same directory
    snap        \* the database as it was when this run started

vars == <<dir, db, rdns, rdns_file, pc, idx, n, n_new, report, todo, err,
          printed, run, lookups, lastNet, op, rerun, snap>>

-----------------------------------------------------------------------------
(* Bounds *)

MaxFiles == 2
MaxRuns == 2
MaxSigs == 2
MaxRecs == 3

-----------------------------------------------------------------------------
(* Python values *)

None == <<>>
Some(v) == <<v>>
HasAttr(obj, a) == a \in DOMAIN obj

-----------------------------------------------------------------------------
(* dmarc_storage.py: schema *)

TableNames == {"dmarc_reports", "dmarc_records", "spf_results", "dkim_signatures"}

\* CREATE TABLE IF NOT EXISTS, four times: existing tables keep their rows.
init_database(d) ==
    [t \in (DOMAIN d) \cup TableNames |-> IF t \in DOMAIN d THEN d[t] ELSE {}]

DropTable(d, t) == [x \in (DOMAIN d) \ {t} |-> d[x]]

delete_all_data_keep_reports(d) ==
    init_database(DropTable(DropTable(DropTable(d,
        "dkim_signatures"), "spf_results"), "dmarc_records"))

\* DROP the four tables, children first, then recreate them empty.
delete_all_data(d) ==
    init_database(DropTable(DropTable(DropTable(DropTable(d,
        "dkim_signatures"), "spf_results"), "dmarc_records"), "dmarc_reports"))

report_already_exists_inverted(d, report_filename) ==
    ~ \E r \in d["dmarc_reports"] : r.report_filename = report_filename

\* SELECT report_filename FROM dmarc_reports WHERE report_filename=?;
\* fetchone() is not None.
report_already_exists(d, report_filename) ==
    \E r \in d["dmarc_reports"] : r.report_filename = report_filename

\* datetime.utcfromtimestamp: seconds since the epoch -> naive UTC date and time of day.
utcfromtimestamp(t) == [days |-> t \div 86400, secs |-> t % 86400]

\* totimestamp of a naive datetime: (dt - 1970-01-01).total_seconds().
totimestamp(dt) == dt.days * 86400 + dt.secs

-----------------------------------------------------------------------------
(* dmarc_storage.py: one autocommitted INSERT each.  A statement maps      *)
(* [db, err] to [db, err]; after an exception nothing more is executed and *)
(* everything inserted before it stays (isolation_level = None).           *)

Stmt(d, e) == [db |-> d, err |-> e]

Add(d, t, row) == [d EXCEPT ![t] = @ \cup {row}]

InsertReportReplace(st, row) ==
    IF st.err # "none" THEN st
    ELSE Stmt([st.db EXCEPT !["dmarc_reports"] =
                   {r \in @ : r.report_id # row.report_id} \cup {row}], "none")

\* INSERT INTO dmarc_reports: report_id is the PRIMARY KEY.
InsertReport(st, row) ==
    IF st.err # "none" THEN st
    ELSE IF \E r \in st.db["dmarc_reports"] : r.report_id = row.report_id
         THEN Stmt(st.db, "IntegrityError")
         ELSE Stmt(Add(st.db, "dmarc_reports", row), "none")

\* INSERT INTO dmarc_records: PRIMARY KEY (report_id, record_id),
\* report_id REFERENCES dmarc_reports (foreign_keys = ON).
InsertRecord(st, row) ==
    IF st.err # "none" THEN st
    ELSE IF \/ \E r \in st.db["dmarc_records"] :
                   r.report_id = row.report_id /\ r.record_id = row.record_id
            \/ ~ \E p \in st.db["dmarc_reports"] : p.report_id = row.report_id
         THEN Stmt(st.db, "IntegrityError")
         ELSE Stmt(Add(st.db, "dmarc_records", row), "none")

\* INSERT INTO spf_results: PRIMARY KEY and FOREIGN KEY (report_id, record_id).
InsertSpf(st, row) ==
    IF st.err # "none" THEN st
    ELSE IF \/ \E r \in st.db["spf_results"] :
                   r.report_id = row.report_id /\ r.record_id = row.record_id
            \/ ~ \E p \in st.db["dmarc_records"] :
                   p.report_id = row.report_id /\ p.record_id = row.record_id
         THEN Stmt(st.db, "IntegrityError")
         ELSE Stmt(Add(st.db, "spf_results", row), "none")

\* INSERT INTO dkim_signatures: PRIMARY KEY (report_id, record_id, signature_id),
\* FOREIGN KEY (report_id, record_id), UNIQUE (report_id, record_id, domain,
\* result, selector) where SQLite counts NULL selectors as distinct.
InsertDkim(st, row) ==
    IF st.err # "none" THEN st
    ELSE IF \/ \E r \in st.db["dkim_signatures"] :
                   /\ r.report_id = row.report_id /\ r.record_id = row.record_id
                   /\ \/ r.signature_id = row.signature_id
                      \/ /\ r.domain = row.domain /\ r.result = row.result
                         /\ r.selector = row.selector /\ row.selector # None
            \/ ~ \E p \in st.db["dmarc_records"] :
                   p.report_id = row.report_id /\ p.record_id = row.record_id
         THEN Stmt(st.db, "IntegrityError")
         ELSE Stmt(Add(st.db, "dkim_signatures", row), "none")

-----------------------------------------------------------------------------
(* dmarc_storage.py: save_new_report *)

RECURSIVE SaveSigs(_, _, _, _, _)
\* for sig_id, sig in enumerate(rec.dkim_signatures): INSERT INTO dkim_signatures
SaveSigs(st, report_id, rec_id, sigs, sig_id) ==
    IF sig_id >= Len(sigs) THEN st
    ELSE SaveSigs(InsertDkim(st, [report_id |-> report_id, record_id |-> rec_id,
                                  signature_id |-> sig_id,
                                  domain |-> sigs[sig_id + 1].domain,
                                  result |-> sigs[sig_id + 1].result,
                                  selector |-> sigs[sig_id + 1].selector]),
                  report_id, rec_id, sigs, sig_id + 1)

\* One iteration of "for rec_id, rec in enumerate(report.records)".  The
\* argument list of the first INSERT reads rec.reason, that of the second
\* rec.spf_result; an attribute the record does not have raises AttributeError
\* before the statement is executed.
SaveRecord(st, rep, rec_id) ==
    LET rec == rep.records[rec_id + 1] IN
    IF st.err # "none" THEN st
    ELSE IF ~ HasAttr(rec, "reason") THEN Stmt(st.db, "AttributeError")
    ELSE LET s1 == InsertRecord(st,
                     [report_id |-> rep.id, record_id |-> rec_id,
                      ip_address |-> rec.ip, hostname |-> rec.host,
                      disposition |-> rec.disposition, reason |-> rec.reason,
                      spf_pass |-> rec.spf_pass, dkim_pass |-> rec.dkim_pass,
                      header_from |-> rec.header_from,
                      envelope_from |-> rec.envelope_from, count |-> rec.count])
         IN IF s1.err # "none" THEN s1
            ELSE IF ~ HasAttr(rec, "spf_result") THEN Stmt(s1.db, "AttributeError")
            ELSE SaveSigs(InsertSpf(s1, [report_id |-> rep.id, record_id |-> rec_id,
                                         domain |-> rec.spf_result.domain,
                                         result |-> rec.spf_result.result]),
                          rep.id, rec_id, rec.dkim_signatures, 0)

RECURSIVE SaveRecords(_, _, _)
SaveRecords(st, rep, rec_id) ==
    IF rec_id >= Len(rep.records) THEN st
    ELSE SaveRecords(SaveRecord(st, rep, rec_id), rep, rec_id + 1)

ReportRow(rep) ==
    [report_id |-> rep.id, receiver |-> rep.receiver, report_filename |-> rep.filename,
     report_start |-> totimestamp(rep.start_date),
     report_end |-> totimestamp(rep.end_date)]

\* The report row, then every record with its SPF row and DKIM rows.
save_new_report(d, rep) ==
    SaveRecords(InsertReport(Stmt(d, "none"), ReportRow(rep)), rep, 0)

-----------------------------------------------------------------------------
(* dmarc_parser.py: reverse-DNS resolver *)

IPs == {"ip1", "ip2"}
NetOutcomes == {"ok", "herror", "timeout"}

\* What socket.gethostbyaddr answers for an address that resolves.
HostOf(ip) == IF ip = "ip1" THEN "host1" ELSE "host2"

Looked(ret, e, cache, calls, net) ==
    [ret |-> ret, err |-> e, rdns |-> cache, calls |-> calls, net |-> net]

lookup_ip_uncached(ip_address, cache, outcome) ==
    IF outcome = "ok"
    THEN Looked(Some(HostOf(ip_address)), "none",
                (ip_address :> Some(HostOf(ip_address))) @@ cache, 1, "ok")
    ELSE IF outcome = "herror"
    THEN Looked(None, "none", cache, 1, "herror")
    ELSE Looked(None, "timeout", cache, 1, "timeout")

\* _lookup_ip: a cached address is answered from _rdns_records; otherwise
\* gethostbyaddr is called, a resolved name is stored, socket.herror gives
\* None (stored nowhere) and any other exception (socket.timeout) escapes.
lookup_ip(ip_address, cache, outcome) ==
    IF ip_address \notin DOMAIN cache
    THEN IF outcome = "ok"
         THEN Looked(Some(HostOf(ip_address)), "none",
                     (ip_address :> Some(HostOf(ip_address))) @@ cache, 1, "ok")
         ELSE IF outcome = "herror"
         THEN Looked(None, "none", cache, 1, "herror")
         ELSE Looked(None, "timeout", cache, 1, "timeout")
    ELSE Looked(cache[ip_address], "none", cache, 0, "none")

-----------------------------------------------------------------------------
(* dmarc_parser.py: DMARCRecord.__init__ *)

Literals == {"pass", "fail"}

\* policy_evaluated.spf: None when the element is absent.
spf_pass(pe_spf) == IF pe_spf # None THEN Some(pe_spf[1] = "pass") ELSE None

dkim_pass_unsanitised(pe_dkim) == IF pe_dkim # None THEN Some(pe_dkim[1] = "pass") ELSE None

\* policy_evaluated.dkim: "if DKIM wasn't included, it failed".
dkim_pass(pe_dkim) == IF pe_dkim # None THEN Some(pe_dkim[1] = "pass") ELSE Some(FALSE)

KeepSigEither(result, domain) ==
    result \notin {"none", "neutral"} \/ domain # "not.evaluated"

\* if _result not in ["none", "neutral"] and _domain != "not.evaluated"
KeepSig(result, domain) ==
    result \notin {"none", "neutral"} /\ domain # "not.evaluated"

RECURSIVE dkim_signatures(_, _)
\* for dkim_sig in xml_dkim_signatures: ... self.dkim_signatures.append(dict(...))
dkim_signatures(xml_dkim_signatures, acc) ==
    IF xml_dkim_signatures = <<>> THEN acc
    ELSE LET dkim_sig == Head(xml_dkim_signatures) IN
         dkim_signatures(Tail(xml_dkim_signatures),
             IF KeepSig(dkim_sig.result, dkim_sig.domain)
             THEN Append(acc, [result |-> dkim_sig.result, domain |-> dkim_sig.domain,
                               selector |-> dkim_sig.selector])
             ELSE acc)

Built(obj, l, e) ==
    [obj |-> obj, err |-> e, rdns |-> l.rdns, calls |-> l.calls, net |-> l.net]

\* A constructor that lets the AttributeError of the missing SPF entry escape.
DMARCRecord_strict(record_xml, cache, outcome) ==
    LET l == lookup_ip(record_xml.source_ip, cache, outcome) IN
    IF l.err # "none" THEN Built(None, l, l.err)
    ELSE IF record_xml.pe_spf # None /\ record_xml.pe_spf[1] \notin Literals
         THEN Built(None, l, "AssertionError")
    ELSE IF record_xml.pe_dkim # None /\ record_xml.pe_dkim[1] \notin Literals
         THEN Built(None, l, "AssertionError")
    ELSE IF record_xml.auth_spf = None THEN Built(None, l, "AttributeError")
    ELSE Built(Some([ip |-> record_xml.source_ip,
                     host |-> l.ret,
                     disposition |-> record_xml.disposition,
                     spf_pass |-> spf_pass(record_xml.pe_spf),
                     dkim_pass |-> dkim_pass(record_xml.pe_dkim),
                     header_from |-> record_xml.header_from,
                     envelope_from |-> record_xml.envelope_from,
                     count |-> record_xml.count,
                     dkim_signatures |-> dkim_signatures(record_xml.auth_dkim, <<>>),
                     spf_result |-> record_xml.auth_spf[1]]),
               l, "none")

\* The constructor: the host lookup first, then the asserts on the evaluated
\* policy, then the attributes.  Without an auth_results SPF entry the
\* AttributeError is caught and auth_spf is set instead of spf_result.
DMARCRecord(record_xml, cache, outcome) ==
    LET l == lookup_ip(record_xml.source_ip, cache, outcome) IN
    IF l.err # "none" THEN Built(None, l, l.err)
    ELSE IF record_xml.pe_spf # None /\ record_xml.pe_spf[1] \notin Literals
         THEN Built(None, l, "AssertionError")
    ELSE IF record_xml.pe_dkim # None /\ record_xml.pe_dkim[1] \notin Literals
         THEN Built(None, l, "AssertionError")
    ELSE Built(Some([ip |-> record_xml.source_ip,
                     host |-> l.ret,
                     disposition |-> record_xml.disposition,
                     spf_pass |-> spf_pass(record_xml.pe_spf),
                     dkim_pass |-> dkim_pass(record_xml.pe_dkim),
                     header_from |-> record_xml.header_from,
                     envelope_from |-> record_xml.envelope_from,
                     count |-> record_xml.count,
                     dkim_signatures |-> dkim_signatures(record_xml.auth_dkim, <<>>)]
                    @@ (IF record_xml.auth_spf # None
                        THEN [spf_result |-> record_xml.auth_spf[1]]
                        ELSE [auth_spf |-> None])),
               l, "none")

\* DMARCReport.__init__: a document without report_metadata has nothing to read.
DMARCReport(filename, doc) ==
    [id |-> doc.report_id, filename |-> filename, receiver |-> doc.org_name,
     start_date |-> utcfromtimestamp(doc.begin),
     end_date |-> utcfromtimestamp(doc.end), records |-> <<>>]

-----------------------------------------------------------------------------
(* dmarc_parser.py: archive extraction *)

\* fname.endswith(".zip"), ".gz", ".xml": the last component after a dot.
endswith(name, ext) == Len(name) >= 2 /\ name[Len(name)] = ext

\* archive_name.replace(".gz", ""): every ".gz" goes, wherever it stands.
strip_gz(name) == <<name[1]>> \o SelectSeq(Tail(name), LAMBDA c : c # "gz")

\* fname.split("/")[-1] of root + "/" + fname.
archive_name(path) == path[Len(path)]

Extracted(kind, xml, e) == [kind |-> kind, xml |-> xml, err |-> e]

FirstXml(members) ==
    LET hits == {i \in 1..Len(members) : endswith(members[i].name, "xml")} IN
    IF hits = {} THEN 0 ELSE CHOOSE i \in hits : \A j \in hits : i <= j

\* _process_zipfile up to the call of _process_xml: the first member whose
\* name ends in .xml; falling off the loop returns None.
process_zipfile(file) ==
    IF file.corrupt THEN Extracted("raise", None, "BadZipfile")
    ELSE IF FirstXml(file.members) = 0 THEN Extracted("none", None, "none")
    ELSE Extracted("xml", Some(file.members[FirstXml(file.members)].doc), "none")

\* A gzip branch that opens the file whatever its name.
process_gzfile_any_name(file) ==
    IF file.corrupt THEN Extracted("raise", None, "IOError")
    ELSE Extracted("xml", Some(file.members[1].doc), "none")

\* _process_gzfile up to the call of _process_xml.
process_gzfile(file) ==
    IF ~ endswith(strip_gz(archive_name(<<"./reports", file.name>>)), "xml")
    THEN Extracted("none", None, "none")
    ELSE IF file.corrupt THEN Extracted("raise", None, "IOError")
    ELSE Extracted("xml", Some(file.members[1].doc), "none")

\* The dispatch of parse_reports_in_directory on the file name.
Dispatch(file) ==
    IF endswith(file.name, "zip") THEN process_zipfile(file)
    ELSE IF endswith(file.name, "gz") THEN process_gzfile(file)
    ELSE Extracted("none", None, "none")

-----------------------------------------------------------------------------
(* The directories explored *)

Sig(result, domain, selector) ==
    [result |-> result, domain |-> domain, selector |-> selector]

RecordXml(ip, pe_spf, pe_dkim, auth_spf, auth_dkim) ==
    [source_ip |-> ip, disposition |-> "none", pe_spf |-> pe_spf, pe_dkim |-> pe_dkim,
     header_from |-> Some("d1"), envelope_from |-> None, count |-> 10,
     auth_spf |-> auth_spf, auth_dkim |-> auth_dkim]

AuthSpf == Some([domain |-> "d1", result |-> "pass"])

RecFull == RecordXml("ip1", Some("pass"), Some("pass"), AuthSpf,
                     <<Sig("pass", "d1", Some("s1"))>>)
RecBare == RecordXml("ip2", None, None, None,
                     <<Sig("none", "d1", None), Sig("pass", "not.evaluated", Some("s1"))>>)
RecMore == RecordXml("ip2", Some("fail"), None, AuthSpf,
                     <<Sig("fail", "d1", None), Sig("fail", "d1", None)>>)
RecBogus == RecordXml("ip1", Some("softfail"), Some("pass"), AuthSpf, <<>>)

Doc(report_id, begin, end, records) ==
    [malformed |-> FALSE, report_id |-> report_id, org_name |-> "org",
     begin |-> begin, end |-> end, records |-> records]

Garbage == [malformed |-> TRUE]

Member(name, doc) == [name |-> name, doc |-> doc]

File(name, corrupt, members) == [name |-> name, corrupt |-> corrupt, members |-> members]

DocX == Doc("X", 86400, 172800, <<RecFull>>)
DocY == Doc("Y", 100, 86500, <<>>)
DocZ == Doc("Z", 172800, 259200, <<RecBare, RecMore, RecBogus>>)

Catalogue ==
    { File(<<"a", "zip">>, FALSE, <<Member(<<"r", "xml">>, DocX)>>),
      File(<<"b", "zip">>, FALSE, <<Member(<<"readme", "txt">>, Garbage),
                                    Member(<<"r", "xml">>, DocX)>>),
      File(<<"c", "xml", "gz">>, FALSE, <<Member(<<"c", "xml">>, DocY)>>),
      File(<<"d", "xml", "gz">>, FALSE, <<Member(<<"d", "xml">>, DocZ)>>),
      File(<<"e", "zip">>, TRUE, <<>>),
      File(<<"f", "zip">>, FALSE, <<Member(<<"g", "xml">>, Garbage)>>),
      File(<<"h", "zip">>, FALSE, <<Member(<<"notes", "txt">>, Garbage)>>),
      File(<<"i", "gz">>, FALSE, <<Member(<<"i">>, DocY)>>),
      File(<<"j", "txt">>, FALSE, <<>>) }

SeqsUpTo(S, k) == UNION {[1..m -> S] : m \in 0..k}

Dirs == SeqsUpTo(Catalogue, MaxFiles) \ {<<>>}

EmptyDb == [t \in TableNames |-> {}]

-----------------------------------------------------------------------------
(* The run: __main__ and parse_reports_in_directory *)

Init ==
    /\ dir \in Dirs
    /\ db = EmptyDb
    /\ rdns = <<>>
    /\ rdns_file = <<>>
    /\ pc = "idle"
    /\ idx = 1
    /\ n = 0
    /\ n_new = 0
    /\ report = None
    /\ todo = <<>>
    /\ err = "none"
    /\ printed = FALSE
    /\ run = 0
    /\ lookups = 0
    /\ lastNet = "none"
    /\ op = "init"
    /\ rerun = FALSE
    /\ snap = EmptyDb

Idle == pc \in {"idle", "done", "aborted"}

\* load_rdns_records, DMARCStorage(), then the head of the driver: n = n_new = 0.
StartRun ==
    /\ Idle
    /\ run < MaxRuns
    /\ run' = run + 1
    /\ rdns' = rdns_file
    /\ db' = init_database(db)
    /\ snap' = init_database(db)
    /\ rerun' = (run >= 1 /\ op # "reset")
    /\ pc' = "walk"
    /\ idx' = 1
    /\ n' = 0
    /\ n_new' = 0
    /\ report' = None
    /\ todo' = <<>>
    /\ err' = "none"
    /\ printed' = FALSE
    /\ lookups' = 0
    /\ lastNet' = "none"
    /\ op' = "start"
    /\ UNCHANGED <<dir, rdns_file>>

Examining == pc = "walk" /\ idx <= Len(dir)

\* An exception leaves the driver and the process: nothing is printed, the
\* resolver cache is not saved.
Raise(e) ==
    /\ pc' = "aborted"
    /\ err' = e

\* if persistent_storage.report_already_exists(fname): continue
SkipExisting ==
    /\ Examining
    /\ report_already_exists(db, dir[idx].name)
    /\ n' = n + 1
    /\ idx' = idx + 1
    /\ op' = "skip"
    /\ UNCHANGED <<dir, db, rdns, rdns_file, pc, n_new, report, todo, err, printed,
                   run, lookups, lastNet, rerun, snap>>

\* Neither branch of the dispatch yields a report: report stays None.
IgnoreFile ==
    /\ Examining
    /\ ~ report_already_exists(db, dir[idx].name)
    /\ Dispatch(dir[idx]).kind = "none"
    /\ n' = n + 1
    /\ idx' = idx + 1
    /\ op' = "ignore"
    /\ UNCHANGED <<dir, db, rdns, rdns_file, pc, n_new, report, todo, err, printed,
                   run, lookups, lastNet, rerun, snap>>

\* The archive cannot be opened, or the document has no report_metadata.
ExtractFail ==
    /\ Examining
    /\ ~ report_already_exists(db, dir[idx].name)
    /\ LET x == Dispatch(dir[idx]) IN
       \/ x.kind = "raise" /\ Raise(x.err)
       \/ x.kind = "xml" /\ x.xml[1].malformed /\ Raise("AttributeError")
    /\ n' = n + 1
    /\ op' = "extract"
    /\ UNCHANGED <<dir, db, rdns, rdns_file, idx, n_new, report, todo, printed,
                   run, lookups, lastNet, rerun, snap>>

\* _process_xml: the DMARCReport is built, its record elements are found.
BeginReport ==
    /\ Examining
    /\ ~ report_already_exists(db, dir[idx].name)
    /\ LET x == Dispatch(dir[idx]) IN
       /\ x.kind = "xml"
       /\ ~ x.xml[1].malformed
       /\ report' = Some(DMARCReport(archive_name(<<"./reports", dir[idx].name>>), x.xml[1]))
       /\ todo' = x.xml[1].records
    /\ n' = n + 1
    /\ pc' = "parse"
    /\ op' = "extract"
    /\ UNCHANGED <<dir, db, rdns, rdns_file, idx, n_new, err, printed,
                   run, lookups, lastNet, rerun, snap>>

\* record = DMARCRecord(r); report.add_record(record)
ConstructRecord(outcome) ==
    /\ pc = "parse"
    /\ todo # <<>>
    /\ LET b == DMARCRecord(Head(todo), rdns, outcome) IN
       /\ rdns' = b.rdns
       /\ lookups' = lookups + b.calls
       /\ lastNet' = b.net
       /\ IF b.err # "none"
          THEN Raise(b.err) /\ UNCHANGED <<report, todo>>
          ELSE /\ report' = Some([report[1] EXCEPT !.records = Append(@, b.obj[1])])
               /\ todo' = Tail(todo)
               /\ UNCHANGED <<pc, err>>
    /\ op' = "record"
    /\ UNCHANGED <<dir, db, rdns_file, idx, n, n_new, printed, run, rerun, snap>>

\* if report is not None: n_new += 1; persistent_storage.save_new_report(report)
SaveReport ==
    /\ pc = "parse"
    /\ todo = <<>>
    /\ n_new' = n_new + 1
    /\ LET st == save_new_report(db, report[1]) IN
       /\ db' = st.db
       /\ IF st.err # "none"
          THEN Raise(st.err) /\ UNCHANGED idx
          ELSE pc' = "walk" /\ idx' = idx + 1 /\ UNCHANGED err
    /\ op' = "save"
    /\ UNCHANGED <<dir, rdns, rdns_file, n, report, todo, printed, run, lookups,
                   lastNet, rerun, snap>>

\* The walk is over: print the counts; __main__ then saves the resolver cache.
FinishRun ==
    /\ pc = "walk"
    /\ idx > Len(dir)
    /\ printed' = TRUE
    /\ rdns_file' = rdns
    /\ pc' = "done"
    /\ op' = "finish"
    /\ UNCHANGED <<dir, db, rdns, idx, n, n_new, report, todo, err, run, lookups,
                   lastNet, rerun, snap>>

\* _delete_all_data, between runs.
Reset ==
    /\ Idle
    /\ db' = delete_all_data(db)
    /\ op' = "reset"
    /\ UNCHANGED <<dir, rdns, rdns_file, pc, idx, n, n_new, report, todo, err, printed,
                   run, lookups, lastNet, rerun, snap>>

Next ==
    \/ StartRun
    \/ SkipExisting
    \/ IgnoreFile
    \/ ExtractFail
    \/ BeginReport
    \/ \E outcome \in NetOutcomes : ConstructRecord(outcome)
    \/ SaveReport
    \/ FinishRun
    \/ Reset

Spec == Init /\ [][Next]_vars

-----------------------------------------------------------------------------
(* The record constructor over every record element of the bounded shape:  *)
(* one document with one record is being parsed, the resolver cache is     *)
(* empty or was loaded with one address.                                   *)

PolicyValues == {None, Some("pass"), Some("fail"), Some("softfail")}

SigEntries ==
    { Sig("pass", "d1", Some("s1")), Sig("fail", "d1", None),
      Sig("none", "d1", Some("s1")), Sig("neutral", "d2", None),
      Sig("pass", "not.evaluated", Some("s1")) }

RecordXmls ==
    { RecordXml(ip, s, d, a, k) :
        ip \in IPs, s \in PolicyValues, d \in PolicyValues,
        a \in {None, AuthSpf}, k \in SeqsUpTo(SigEntries, MaxSigs) }

Caches == { <<>>, ("ip1" :> Some("host1")) }

OneRecordFile(x) ==
    File(<<"a", "zip">>, FALSE, <<Member(<<"r", "xml">>, Doc("X", 86400, 172800, <<x>>))>>)

InitRecord ==
    /\ \E x \in RecordXmls :
         /\ dir = <<OneRecordFile(x)>>
         /\ report = Some(DMARCReport(<<"a", "zip">>, OneRecordFile(x).members[1].doc))
         /\ todo = <<x>>
    /\ rdns \in Caches
    /\ rdns_file = rdns
    /\ db = EmptyDb
    /\ pc = "parse"
    /\ idx = 1
    /\ n = 1
    /\ n_new = 0
    /\ err = "none"
    /\ printed = FALSE
    /\ run = 1
    /\ lookups = 0
    /\ lastNet = "none"
    /\ op = "extract"
    /\ rerun = FALSE
    /\ snap = EmptyDb

NextRecord ==
    \/ \E outcome \in NetOutcomes : ConstructRecord(outcome)
    \/ SaveReport

SpecRecord == InitRecord /\ [][NextRecord]_vars

-----------------------------------------------------------------------------
(* Properties *)

RowsOf(d, t, id) == {r \in d[t] : r.report_id = id}

StoredIds(d) == {r.report_id : r \in d["dmarc_reports"]}

FilenameStored(d, name) == \E r \in d["dmarc_reports"] : r.report_filename = name

\* The record elements of the document the walk is at.
SrcRecords == Dispatch(dir[idx]).xml[1].records

Saving == pc = "parse" /\ todo = <<>>

\* C1: a second run over the unchanged directory, directly after a first run,
\* inserts no row into any of the four tables.
C1_SecondRunInsertsNothing == rerun => db = snap

\* C2: after save_new_report has failed, report_already_exists is false for the
\* report's filename, and a report whose filename exists has a row for every
\* one of its records.
C2_AtomicPerReport ==
    (op = "save" /\ report # None) =>
        /\ err # "none" => ~ FilenameStored(db, report[1].filename)
        /\ FilenameStored(db, report[1].filename) =>
             \A i \in 1..Len(report[1].records) :
                \E r \in db["dmarc_records"] :
                    r.report_id = report[1].id /\ r.record_id = i - 1

\* C3: a run always ends having examined every file of the walk and having
\* printed the counts, whatever errors single files raised.
C3_SkipAndContinue ==
    pc \in {"done", "aborted"} => (printed /\ n = Len(dir))

\* C4: save_new_report of a report whose id is already stored raises the
\* constraint violation, and a save that raises a constraint violation leaves
\* every row of every previously stored report as it was, in all four tables.
C4_SiblingsUntouched ==
    [][Saving =>
         /\ report[1].id \in StoredIds(db) =>
              (err' = "IntegrityError" /\ db' = db)
         /\ err' = "IntegrityError" =>
              \A t \in TableNames : \A id \in StoredIds(db) :
                  RowsOf(db', t, id) = RowsOf(db, t, id)]_vars

C4_Witness ==
    /\ op = "save"
    /\ err = "IntegrityError"
    /\ \E r \in db["dmarc_reports"] :
         r.report_id = report[1].id /\ r.report_filename # report[1].filename

\* C5: the walk takes the "continue" of the pre-check, with no extraction, no
\* parse and no insert, exactly when a stored report has the file's name; the
\* id the file holds plays no part.
C5_DedupByFilename ==
    [][Examining =>
         /\ (op' = "skip") <=> FilenameStored(db, dir[idx].name)
         /\ op' = "skip" =>
              (db' = db /\ report' = report /\ lookups' = lookups /\ n_new' = n_new)
         /\ ~ FilenameStored(db, dir[idx].name) /\ Dispatch(dir[idx]).kind = "xml"
              /\ ~ Dispatch(dir[idx]).xml[1].malformed => pc' = "parse"]_vars

C5_Witness ==
    /\ pc = "parse"
    /\ \E r \in db["dmarc_reports"] :
         r.report_id = report[1].id /\ r.report_filename # report[1].filename

\* C6: a record whose policy_evaluated has no dkim element has dkim_pass false;
\* dkim_pass of every constructed and every stored record is true or false;
\* spf_pass is None exactly when policy_evaluated has no spf element.
C6_DkimFailClosed ==
    /\ pc = "parse" =>
         \A i \in 1..Len(report[1].records) :
            /\ SrcRecords[i].pe_dkim = None => report[1].records[i].dkim_pass = Some(FALSE)
            /\ report[1].records[i].dkim_pass \in {Some(TRUE), Some(FALSE)}
            /\ report[1].records[i].spf_pass = None <=> SrcRecords[i].pe_spf = None
    /\ \A r \in db["dmarc_records"] : r.dkim_pass \in {Some(TRUE), Some(FALSE)}

C6_Witness ==
    /\ pc = "parse"
    /\ \E i \in 1..Len(report[1].records) :
         /\ SrcRecords[i].pe_dkim = None
         /\ SrcRecords[i].pe_spf = None
         /\ report[1].records[i].dkim_pass = Some(FALSE)

Dropped(e) == e.result = "none" \/ e.result = "neutral" \/ e.domain = "not.evaluated"

\* C7: the signatures a record keeps are the auth_results dkim entries, in
\* document order, that are not dropped; none/neutral results and the
\* not.evaluated domain are dropped, and no such row is stored.
C7_SignatureFilter ==
    /\ pc = "parse" =>
         \A i \in 1..Len(report[1].records) :
            report[1].records[i].dkim_signatures =
                SelectSeq(SrcRecords[i].auth_dkim, LAMBDA e : ~ Dropped(e))
    /\ \A r \in db["dkim_signatures"] : ~ Dropped(r)

C7_Witness ==
    /\ pc = "parse"
    /\ \E i \in 1..Len(report[1].records) :
         /\ Len(report[1].records[i].dkim_signatures) = 1
         /\ Len(SrcRecords[i].auth_dkim) = 2
         /\ Dropped(SrcRecords[i].auth_dkim[1])

\* The address of the last _lookup_ip call.
LastIp ==
    IF pc = "aborted" THEN Head(todo).source_ip
    ELSE report[1].records[Len(report[1].records)].ip

\* C8: a failed reverse lookup raises nothing and leaves the address cached.
C8_FailureContained ==
    (op = "record" /\ lastNet \in {"herror", "timeout"}) =>
        (err = "none" /\ LastIp \in DOMAIN rdns)

\* C9: _lookup_ip of a cached address calls no gethostbyaddr, leaves the cache
\* as it is and returns the cached value; a resolved address is cached, and
\* nothing leaves the cache while the run lasts.
C9_CacheHit ==
    [][(pc = "parse" /\ todo # <<>>) =>
         /\ Head(todo).source_ip \in DOMAIN rdns =>
              /\ lookups' = lookups
              /\ rdns' = rdns
              /\ lastNet' = "none"
              /\ pc' = "parse" =>
                   report'[1].records[Len(report'[1].records)].host
                       = rdns[Head(todo).source_ip]
         /\ lastNet' = "ok" => Head(todo).source_ip \in DOMAIN rdns'
         /\ \A ip \in DOMAIN rdns : ip \in DOMAIN rdns' /\ rdns'[ip] = rdns[ip]]_vars

C9_Witness ==
    /\ op = "record"
    /\ pc = "parse"
    /\ lastNet = "none"
    /\ lookups = 1
    /\ Len(report[1].records) = 2

\* C10: every dmarc_records row has its dmarc_reports row, every spf_results
\* and dkim_signatures row has its dmarc_records row, and after
\* _delete_all_data the four tables exist and are empty.
C10_NoOrphans ==
    /\ DOMAIN db = TableNames
    /\ \A r \in db["dmarc_records"] :
         \E p \in db["dmarc_reports"] : p.report_id = r.report_id
    /\ \A s \in db["spf_results"] \cup db["dkim_signatures"] :
         \E r \in db["dmarc_records"] :
            r.report_id = s.report_id /\ r.record_id = s.record_id
    /\ op = "reset" => \A t \in TableNames : db[t] = {}

C10_Witness ==
    /\ op = "reset"
    /\ snap # EmptyDb
    /\ db = EmptyDb

-----------------------------------------------------------------------------
(* dmarc_storage.py: the aggregate queries, with what dmarc_analysis.py    *)
(* makes of their results.  They read the database and change nothing.     *)

\* sqlite3 stores True/False as INTEGER 1/0 and None as NULL.
sql_integer(v) == IF v = None THEN None ELSE IF v[1] THEN Some(1) ELSE Some(0)

\* a + b in SQL: NULL when either side is NULL.
sql_add(a, b) == IF a = None \/ b = None THEN None ELSE Some(a[1] + b[1])

\* min() and max() of a column: NULL over no rows.
sql_min(S) == IF S = {} THEN None ELSE Some(CHOOSE x \in S : \A y \in S : x <= y)
sql_max(S) == IF S = {} THEN None ELSE Some(CHOOSE x \in S : \A y \in S : x >= y)

RECURSIVE sum_count(_)
\* sum(count) over the rows of one group.
sum_count(rows) ==
    IF rows = {} THEN 0
    ELSE LET r == CHOOSE x \in rows : TRUE IN r.count + sum_count(rows \ {r})

\* count(*) over the rows of one group.
count_rows(rows) == Cardinality(rows)

\* SELECT min(report_start); utcfromtimestamp of it (of NULL: a TypeError, None here).
get_reporting_start_date(d) ==
    LET m == sql_min({r.report_start : r \in d["dmarc_reports"]}) IN
    IF m = None THEN None ELSE Some(utcfromtimestamp(m[1]))

\* SELECT max(report_start); utcfromtimestamp of it.
get_reporting_end_date(d) ==
    LET m == sql_max({r.report_start : r \in d["dmarc_reports"]}) IN
    IF m = None THEN None ELSE Some(utcfromtimestamp(m[1]))

\* status = {1: "pass", 0: "fail", None: "n/a"}
status(v) == IF v = None THEN "n/a" ELSE IF v[1] = 1 THEN "pass" ELSE "fail"

StatusGroup(r) == <<sql_integer(r.spf_pass), sql_integer(r.dkim_pass)>>

\* The key "SPF:%s, DKIM:%s" as the pair of its two status words.
StatusKey(g) == <<status(g[1]), status(g[2])>>

get_count_by_status_string_rows(d) ==
    LET recs == d["dmarc_records"]
        groups == {StatusGroup(r) : r \in recs}
    IN [k \in {StatusKey(g) : g \in groups} |->
           count_rows({r \in recs : StatusKey(StatusGroup(r)) = k})]

\* SELECT spf_pass, dkim_pass, sum(count) ... GROUP BY spf_pass, dkim_pass,
\* one dictionary entry per group.
get_count_by_status_string(d) ==
    LET recs == d["dmarc_records"]
        groups == {StatusGroup(r) : r \in recs}
    IN [k \in {StatusKey(g) : g \in groups} |->
           sum_count({r \in recs : StatusKey(StatusGroup(r)) = k})]

HostGroup(r) == <<r.hostname, r.ip_address>>

\* str(r[0]) if r[0] is not None else str(r[1])
HostKey(g) == IF g[1] # None THEN g[1][1] ELSE g[2]

\* SELECT hostname, ip_address, sum(count) ... GROUP BY hostname, ip_address,
\* then one dictionary entry per key: of the groups that make the same key the
\* one the query returns last stays, and the query fixes no order.  The set of
\* dictionaries the call can return.
get_count_by_hostnames(d) ==
    LET recs == d["dmarc_records"]
        groups == {HostGroup(r) : r \in recs}
        total(g) == sum_count({r \in recs : HostGroup(r) = g})
    IN {f \in [{HostKey(g) : g \in groups} -> {total(g) : g \in groups}] :
           \A k \in DOMAIN f : \E g \in groups : HostKey(g) = k /\ f[k] = total(g)}

RECURSIVE sum_values(_)
\* sum(by_host.values()) of generate_report.
sum_values(f) ==
    IF DOMAIN f = {} THEN 0
    ELSE LET k == CHOOSE x \in DOMAIN f : TRUE IN
         f[k] + sum_values([x \in (DOMAIN f) \ {k} |-> f[x]])

\* SELECT report_start, spf_pass + dkim_pass, count FROM dmarc_reports JOIN
\* dmarc_records: one result row per record, here with the record's key.
get_raw_dmarc_status_count_by_timestamp(d) ==
    {[report_id |-> r.report_id, record_id |-> r.record_id,
      report_start |-> p.report_start,
      value |-> sql_add(sql_integer(r.spf_pass), sql_integer(r.dkim_pass)),
      count |-> r.count] :
        <<p, r>> \in {x \in d["dmarc_reports"] \X d["dmarc_records"] :
                         x[1].report_id = x[2].report_id}}

\* dmarc_analysis.py: "if r[1] > 0"; None is smaller than every number.
counted_as_pass(value) == value # None /\ value[1] > 0

\* dmarc_analysis.py: dmarc_passes, here summed over the dates.
dmarc_passes(d) ==
    sum_count({x \in get_raw_dmarc_status_count_by_timestamp(d) : counted_as_pass(x.value)})

-----------------------------------------------------------------------------
(* The storage engine on its own: save_new_report called with reports whose *)
(* records are the parser's objects completed with the reason attribute the *)
(* INSERT reads, so that the record, SPF and signature statements run.      *)

WithCount(xml, c) == [xml EXCEPT !.count = c]

SharedCache == ("ip1" :> Some("host1")) @@ ("ip2" :> Some("host1"))

\* What DMARCRecord builds, plus reason.
Stored(xml, cache, outcome) ==
    DMARCRecord(xml, cache, outcome).obj[1] @@ [reason |-> None]

SigPass == Sig("pass", "d1", Some("s1"))
SigNoSel == Sig("fail", "d1", None)

StubRecords ==
    { Stored(WithCount(RecordXml("ip1", Some("pass"), Some("pass"), AuthSpf, <<SigPass>>), 10),
             SharedCache, "ok"),
      Stored(WithCount(RecordXml("ip2", Some("pass"), Some("pass"), AuthSpf, <<>>), 5),
             SharedCache, "ok"),
      Stored(WithCount(RecordXml("ip1", Some("fail"), Some("pass"), AuthSpf,
                                 <<SigNoSel, SigNoSel>>), 3), <<>>, "herror"),
      Stored(WithCount(RecordXml("ip2", None, Some("pass"), AuthSpf,
                                 <<SigPass, SigPass>>), 5), <<>>, "herror"),
      Stored(WithCount(RecordXml("ip1", None, None, AuthSpf, <<>>), 3), SharedCache, "ok"),
      Stored(WithCount(RecordXml("ip2", Some("fail"), Some("fail"), AuthSpf, <<>>), 10),
             <<>>, "ok"),
      Stored(RecBare, <<>>, "herror") }

Stub(filename, doc, records) ==
    [DMARCReport(filename, doc) EXCEPT !.records = records]

StubReports ==
    { Stub(<<"a", "zip">>, DocX, recs) : recs \in SeqsUpTo(StubRecords, MaxRecs) }
    \cup { Stub(<<"c", "xml", "gz">>, DocY, recs) : recs \in SeqsUpTo(StubRecords, 1) }

InitStore ==
    /\ dir = <<OneRecordFile(RecFull)>>
    /\ db = EmptyDb
    /\ rdns = <<>>
    /\ rdns_file = <<>>
    /\ pc = "idle"
    /\ idx = 1
    /\ n = 0
    /\ n_new = 0
    /\ report = None
    /\ todo = <<>>
    /\ err = "none"
    /\ printed = FALSE
    /\ run = 0
    /\ lookups = 0
    /\ lastNet = "none"
    /\ op = "init"
    /\ rerun = FALSE
    /\ snap = EmptyDb

\* persistent_storage.save_new_report(report), called on its own with a
\* report whose id is new (a stored id is the driver's case, in Spec).
StoreReport(rep) ==
    /\ Idle
    /\ rep.id \notin StoredIds(db)
    /\ LET st == save_new_report(db, rep) IN
       /\ db' = st.db
       /\ err' = st.err
    /\ report' = Some(rep)
    /\ op' = "save"
    /\ UNCHANGED <<dir, rdns, rdns_file, pc, idx, n, n_new, todo, printed, run,
                   lookups, lastNet, rerun, snap>>

NextStore == \E rep \in StubReports : StoreReport(rep)

SpecStore == InitStore /\ [][NextStore]_vars

-----------------------------------------------------------------------------
(* Properties of save_new_report and of the queries *)

\* The rows save_new_report is to leave for a report: its report row, record
\* rows 0..N-1 in document order, one SPF row each, signature rows 0..k-1.
Complete(d, rep) ==
    /\ Cardinality(RowsOf(d, "dmarc_reports", rep.id)) = 1
    /\ {r.record_id : r \in RowsOf(d, "dmarc_records", rep.id)} = 0..(Len(rep.records) - 1)
    /\ Cardinality(RowsOf(d, "dmarc_records", rep.id)) = Len(rep.records)
    /\ Cardinality(RowsOf(d, "spf_results", rep.id)) = Len(rep.records)
    /\ \A i \in 1..Len(rep.records) :
         /\ \E r \in RowsOf(d, "dmarc_records", rep.id) :
               /\ r.record_id = i - 1
               /\ r.ip_address = rep.records[i].ip
               /\ r.count = rep.records[i].count
         /\ \E r \in RowsOf(d, "spf_results", rep.id) : r.record_id = i - 1
         /\ LET sigs == {r \in RowsOf(d, "dkim_signatures", rep.id) : r.record_id = i - 1} IN
            /\ Cardinality(sigs) = Len(rep.records[i].dkim_signatures)
            /\ \A j \in 1..Len(rep.records[i].dkim_signatures) :
                 \E r \in sigs :
                    /\ r.signature_id = j - 1
                    /\ r.domain = rep.records[i].dkim_signatures[j].domain
                    /\ r.result = rep.records[i].dkim_signatures[j].result
                    /\ r.selector = rep.records[i].dkim_signatures[j].selector

\* C11: save_new_report of a report the parser produced, whose id is not yet
\* stored, completes and leaves the report row, N record rows with ids 0..N-1,
\* one SPF row per record and the signature rows 0..k-1 of every record.
C11_CompleteInsert ==
    [][(Saving /\ report[1].id \notin StoredIds(db)) =>
         (err' = "none" /\ Complete(db', report[1]))]_vars

StatusWords == {"pass", "fail", "n/a"}

\* The status word of a record's spf_pass / dkim_pass as the parser set it.
StatusOf(v) == IF v = None THEN "n/a" ELSE IF v[1] THEN "pass" ELSE "fail"

RecordStatus(r) == <<StatusOf(r.spf_pass), StatusOf(r.dkim_pass)>>

RECURSIVE CountUpTo(_, _, _, _)
\* The messages of the records 0..k of one report with the status key, by record id.
CountUpTo(d, id, k, key) ==
    IF k < 0 THEN 0
    ELSE LET rows == {r \in d["dmarc_records"] :
                         r.report_id = id /\ r.record_id = k /\ RecordStatus(r) = key}
         IN (IF rows = {} THEN 0 ELSE (CHOOSE r \in rows : TRUE).count)
            + CountUpTo(d, id, k - 1, key)

RECURSIVE CountIn(_, _, _)
\* The messages of all stored records with the status key, report by report.
CountIn(d, ids, key) ==
    IF ids = {} THEN 0
    ELSE LET id == CHOOSE x \in ids : TRUE IN
         CountUpTo(d, id, Cardinality(d["dmarc_records"]), key) + CountIn(d, ids \ {id}, key)

Messages(d, key) == CountIn(d, {r.report_id : r \in d["dmarc_records"]}, key)

\* C12: get_count_by_status_string has a key for exactly the (spf_pass,
\* dkim_pass) combinations that occur among the stored records, each mapped to
\* the sum of count over the records of that combination.
C12_StatusAggregate ==
    LET res == get_count_by_status_string(db) IN
    /\ DOMAIN res \subseteq StatusWords \X StatusWords
    /\ \A s \in StatusWords : \A k \in StatusWords :
         /\ <<s, k>> \in DOMAIN res <=>
               \E r \in db["dmarc_records"] : RecordStatus(r) = <<s, k>>
         /\ <<s, k>> \in DOMAIN res => res[<<s, k>>] = Messages(db, <<s, k>>)

\* Counts 10 and 5 with SPF pass, 3 with SPF fail, all DKIM pass.
C12_Witness ==
    /\ {r.count : r \in db["dmarc_records"]} = {10, 5, 3}
    /\ Cardinality(db["dmarc_records"]) = 3
    /\ get_count_by_status_string(db) = (<<"pass", "pass">> :> 15) @@ (<<"fail", "pass">> :> 3)

RecordOf(d, report_id, record_id) ==
    CHOOSE r \in d["dmarc_records"] : r.report_id = report_id /\ r.record_id = record_id

SenderKey(r) == IF r.hostname = None THEN r.ip_address ELSE r.hostname[1]

C16_WindowBounds ==
    db["dmarc_reports"] # {} =>
        /\ \E p \in db["dmarc_reports"] :
             /\ \A q \in db["dmarc_reports"] : p.report_start <= q.report_start
             /\ get_reporting_start_date(db) = Some(utcfromtimestamp(p.report_start))
        /\ \E p \in db["dmarc_reports"] :
             /\ \A q \in db["dmarc_reports"] : p.report_end >= q.report_end
             /\ get_reporting_end_date(db) = Some(utcfromtimestamp(p.report_end))

\* The record element under construction has no SPF entry in its auth_results.
NoAuthSpf == pc = "parse" /\ todo # <<>> /\ Head(todo).auth_spf = None

\* The report about to be saved holds a record built without an SPF entry.
HoldsNoSpf ==
    Saving /\ \E i \in 1..Len(report[1].records) :
                  ~ HasAttr(report[1].records[i], "spf_result")

Unrecognised(file) ==
    \/ ~ endswith(file.name, "zip") /\ ~ endswith(file.name, "gz")
    \/ /\ endswith(file.name, "gz")
       /\ ~ endswith(strip_gz(file.name), "xml")
    \/ /\ endswith(file.name, "zip")
       /\ ~ file.corrupt
       /\ \A i \in 1..Len(file.members) : ~ endswith(file.members[i].name, "xml")

\* C18: examining an unrecognised file raises nothing, leaves the store as it
\* was, counts the file as examined and not as a new report, and the walk goes
\* on to the next file.
C18_UnrecognisedIgnored ==
    [][(Examining /\ Unrecognised(dir[idx])) =>
         /\ err' = "none"
         /\ db' = db
         /\ n' = n + 1
         /\ n_new' = n_new
         /\ pc' = "walk"
         /\ idx' = idx + 1
         /\ op' \in {"ignore", "skip"}]_vars

C18_Witness ==
    /\ op = "ignore"
    /\ idx = 3
    /\ endswith(dir[1].name, "zip") /\ Unrecognised(dir[1])
    /\ endswith(dir[2].name, "gz") /\ Unrecognised(dir[2])
    /\ n = 2
    /\ n_new = 0
    /\ err = "none"

====
